---------------------------- MODULE Spec2Model ----------------------------
(***************************************************************************)
(* A model of the AWS icon toolchain: the name rules of rename.js          *)
(* (cleanName), the title rules of svg-title.js (cleanTitle), the          *)
(* recursive renamer of rename.js (processDir / renameSafe) and the        *)
(* category merge of restructure.js (alias resolution, mergeCat,           *)
(* processGeneral, copyCats), the title pass of svg-title.js (processSvg)   *)
(* and the checksum markers of download.js (readChecksum, writeChecksum,    *)
(* extractZip) together with the runs of restructure.js that follow them.   *)
(*                                                                         *)
(* Strings are sequences of one-character strings, so that every regular   *)
(* expression of the source is computed character by character.            *)
(***************************************************************************)
EXTENDS Integers, Sequences, FiniteSets, TLC

VARIABLES
    (* rename.js, cleanName applied to one name *)
    name,        \* the entry name handed to cleanName
    isFile,      \* cleanName's second argument
    cleaned,     \* cleanName(name, isFile)
    recleaned,   \* cleanName(cleaned, isFile)
    nstage,      \* "input" | "once" | "twice" | "off"
    (* svg-title.js, cleanTitle applied to one title *)
    raw,         \* the text between <title> and </title>
    title,       \* cleanTitle(raw)
    tstage,      \* "input" | "done" | "off"
    (* rename.js, one run of the renamer over a tree *)
    tree,        \* the file system under cfg.root: a set of nodes
    tree0,       \* the tree the run started from
    rnDryRun,    \* cfg.dryRun of rename.js
    stack,       \* the active processDir calls, innermost last
    renames,     \* the renameSafe calls made so far, in order
    rnpc,        \* "start" | "walk" | "done" | "failed" | "off"
    (* restructure.js, one run *)
    source,      \* the raw archive under cfg.source
    cfg,         \* cfg.dryRun and cfg.concurrency of restructure.js
    dest,        \* the tree under cfg.dest: its directories and files
    dest0,       \* the destination the run started from
    archCats,    \* Map slug -> architecture directory
    resCats,     \* Map slug -> resource directory
    autoAlias,   \* the inferred aliases
    alias,       \* { ...autoAlias, ...manualAlias }
    tasks,       \* the mergeCat calls, in the order of archCats
    sum,         \* the statistics
    rpc,         \* "start" | "resolve" | "merge" | "cats" | "checksum" |
                 \* "done" | "aborted" | "crashed" | "off"
    crash,       \* the copy path whose failed copy ended the run, or "none"
    (* svg-title.js, passes of processSvg over one SVG file *)
    svg,         \* the file: whether it has a <title> element, and its text
    svg0,        \* the file before the first pass
    syDryRun,    \* cfg.dryRun of svg-title.js
    sywrites,    \* per pass: whether processSvg called fs.writeFile
    (* download.js and restructure.js run one after another *)
    rawDir,      \* raw-aws-icons: absent, or the archive it was extracted from
    rawSum,      \* raw-aws-icons/checksum.txt: absent, or the hash it holds
    iconsSum,    \* aws-icons/checksum.txt: absent, or the hash it holds
    iconsOf,     \* the archives whose icons were copied into aws-icons
    run,         \* the run in progress and the data it holds
    history      \* the download runs that ended, oldest first

nameVars   == <<name, isFile, cleaned, recleaned, nstage>>
titleVars  == <<raw, title, tstage>>
renameVars == <<tree, tree0, rnDryRun, stack, renames, rnpc>>
mergeVars  == <<source, cfg, dest, dest0, archCats, resCats, autoAlias, alias,
                tasks, sum, rpc, crash>>
syncVars   == <<svg, svg0, syDryRun, sywrites>>
pipeVars   == <<rawDir, rawSum, iconsSum, iconsOf, run, history>>
vars == <<nameVars, titleVars, renameVars, mergeVars, syncVars, pipeVars>>

-----------------------------------------------------------------------------
(* Characters and strings                                                  *)

Uppers == <<"A","B","C","D","E","F","G","H","I","J","K","L","M",
            "N","O","P","Q","R","S","T","U","V","W","X","Y","Z">>
Lowers == <<"a","b","c","d","e","f","g","h","i","j","k","l","m",
            "n","o","p","q","r","s","t","u","v","w","x","y","z">>
Digits == {"0","1","2","3","4","5","6","7","8","9"}

\* String.prototype.toLowerCase on one character
Lower(c) ==
    IF \E i \in 1..26 : Uppers[i] = c
    THEN Lowers[CHOOSE i \in 1..26 : Uppers[i] = c]
    ELSE c

\* the character class [-_]
IsSep(c) == c \in {"-", "_"}

\* the literal pat (given in lower case) matches s at position i, ignoring case
MatchCI(s, i, pat) ==
    /\ i >= 1
    /\ i + Len(pat) - 1 <= Len(s)
    /\ \A k \in 1..Len(pat) : Lower(s[i + k - 1]) = pat[k]

\* s.slice(i - 1): the characters of s from position i on
From(s, i) == IF i > Len(s) THEN <<>> ELSE SubSeq(s, i, Len(s))

\* String.prototype.includes for a literal, ignoring case
ContainsCI(s, pat) == \E i \in 1..Len(s) : MatchCI(s, i, pat)

RECURSIVE Concat(_)
Concat(parts) ==
    IF parts = <<>> THEN <<>> ELSE Head(parts) \o Concat(Tail(parts))

-----------------------------------------------------------------------------
(* rename.js: cleanName                                                    *)

sArch     == <<"a","r","c","h">>
sRes      == <<"r","e","s">>
sCategory == <<"c","a","t","e","g","o","r","y">>
sAmazon   == <<"a","m","a","z","o","n">>
sAws      == <<"a","w","s">>

\* path.extname for a name without "/": from the last dot on; empty when there
\* is no dot, when the last dot is the first character, and for ".."
LastDot(s) ==
    IF \E i \in 1..Len(s) : s[i] = "."
    THEN CHOOSE i \in 1..Len(s) : s[i] = "." /\ \A j \in (i+1)..Len(s) : s[j] # "."
    ELSE 0

extname(s) ==
    LET d == LastDot(s) IN
    IF d <= 1 THEN <<>>
    ELSE IF s = <<".", ".">> THEN <<>>
    ELSE From(s, d)

\* path.basename(name, ext) with ext = path.extname(name)
basename(s, ext) == SubSeq(s, 1, Len(s) - Len(ext))

\* step 1: /^(?:Arch[-_]Category[-_]|Arch[-_]|Res[-_])/i
PrefixLen(s) ==
    IF /\ MatchCI(s, 1, sArch) /\ Len(s) >= 14 /\ IsSep(s[5])
       /\ MatchCI(s, 6, sCategory) /\ IsSep(s[14])
    THEN 14
    ELSE IF MatchCI(s, 1, sArch) /\ Len(s) >= 5 /\ IsSep(s[5]) THEN 5
    ELSE IF MatchCI(s, 1, sRes) /\ Len(s) >= 4 /\ IsSep(s[4]) THEN 4
    ELSE 0

StripPrefix(s) == From(s, PrefixLen(s) + 1)

\* step 2: /Amazon|AWS/gi, one left-to-right pass over non-overlapping matches
RECURSIVE BrandsFrom(_, _)
BrandsFrom(s, i) ==
    IF i > Len(s) THEN <<>>
    ELSE IF MatchCI(s, i, sAmazon) THEN BrandsFrom(s, i + 6)
    ELSE IF MatchCI(s, i, sAws) THEN BrandsFrom(s, i + 3)
    ELSE <<s[i]>> \o BrandsFrom(s, i + 1)

\* the same without the g flag: only the first match is removed
RECURSIVE BrandsFirstOnly(_, _)
BrandsFirstOnly(s, i) ==
    IF i > Len(s) THEN <<>>
    ELSE IF MatchCI(s, i, sAmazon) THEN From(s, i + 6)
    ELSE IF MatchCI(s, i, sAws) THEN From(s, i + 3)
    ELSE <<s[i]>> \o BrandsFirstOnly(s, i + 1)

StripBrandsOnce(s) == BrandsFirstOnly(s, 1)

StripBrands(s) == BrandsFrom(s, 1)

\* step 3: /_(?:48|32)$/i
StripSize(s) ==
    LET n == Len(s) IN
    IF /\ n >= 3
       /\ s[n - 2] = "_"
       /\ <<s[n - 1], s[n]>> \in {<<"4", "8">>, <<"3", "2">>}
    THEN SubSeq(s, 1, n - 3)
    ELSE s

\* the last position of the run of separators that starts at i
RECURSIVE RunEnd(_, _)
RunEnd(s, i) ==
    IF i < Len(s) /\ IsSep(s[i + 1]) THEN RunEnd(s, i + 1) ELSE i

\* step 4: /[-_]{2,}/g replaced by "_"
RECURSIVE DedupeFrom(_, _)
DedupeFrom(s, i) ==
    IF i > Len(s) THEN <<>>
    ELSE IF IsSep(s[i]) /\ RunEnd(s, i) > i
         THEN <<"_">> \o DedupeFrom(s, RunEnd(s, i) + 1)
         ELSE <<s[i]>> \o DedupeFrom(s, i + 1)

Dedupe(s) == DedupeFrom(s, 1)

\* step 5: /^[-_]+|[-_]+$/g
RECURSIVE TrimLeft(_)
TrimLeft(s) ==
    IF s # <<>> /\ IsSep(Head(s)) THEN TrimLeft(Tail(s)) ELSE s

RECURSIVE TrimRight(_)
TrimRight(s) ==
    IF s # <<>> /\ IsSep(s[Len(s)])
    THEN TrimRight(SubSeq(s, 1, Len(s) - 1))
    ELSE s

Trim(s) == TrimRight(TrimLeft(s))

\* the base after the five replacements, before the guard against empty
cleanBase(base) == Trim(Dedupe(StripSize(StripBrands(StripPrefix(base)))))

\* cleanName with the extension reattached in lower case
cleanNameLowerExt(n, f) ==
    LET ext  == IF f THEN extname(n) ELSE <<>>
        base == IF f THEN basename(n, ext) ELSE n
        b    == cleanBase(base)
        b2   == IF b = <<>> THEN n ELSE b
    IN  IF f THEN b2 \o [i \in 1..Len(ext) |-> Lower(ext[i])] ELSE b2

cleanName(n, f) ==
    LET ext  == IF f THEN extname(n) ELSE <<>>
        base == IF f THEN basename(n, ext) ELSE n
        b    == cleanBase(base)
        b2   == IF b = <<>> THEN n ELSE b
    IN  IF f THEN b2 \o ext ELSE b2

-----------------------------------------------------------------------------
(* svg-title.js: cleanTitle                                                *)

\* raw.split("/").pop(): the characters after the last "/"
LastSlash(s) ==
    IF \E i \in 1..Len(s) : s[i] = "/"
    THEN CHOOSE i \in 1..Len(s) : s[i] = "/" /\ \A j \in (i+1)..Len(s) : s[j] # "/"
    ELSE 0

LastSegment(s) == From(s, LastSlash(s) + 1)

\* /^(?:Arch_|Res_)/i
TitlePrefixLen(s) ==
    IF MatchCI(s, 1, sArch) /\ Len(s) >= 5 /\ s[5] = "_" THEN 5
    ELSE IF MatchCI(s, 1, sRes) /\ Len(s) >= 4 /\ s[4] = "_" THEN 4
    ELSE 0

StripTitlePrefix(s) == From(s, TitlePrefixLen(s) + 1)

\* the first position of the run of digits that ends s (Len(s) + 1 when none)
RECURSIVE DigitsStart(_, _)
DigitsStart(s, i) ==
    IF i >= 1 /\ s[i] \in Digits THEN DigitsStart(s, i - 1) ELSE i + 1

\* /_\d+$/i: the leftmost "_" that is followed by digits only, up to the end
StripTitleSize(s) ==
    LET d == DigitsStart(s, Len(s)) IN
    IF d <= Len(s) /\ d >= 2 /\ s[d - 1] = "_"
    THEN SubSeq(s, 1, d - 2)
    ELSE s

\* the last position of the run of "_" that starts at i
RECURSIVE UnderscoreEnd(_, _)
UnderscoreEnd(s, i) ==
    IF i < Len(s) /\ s[i + 1] = "_" THEN UnderscoreEnd(s, i + 1) ELSE i

\* /__+/g replaced by "_"
RECURSIVE DoublesFrom(_, _)
DoublesFrom(s, i) ==
    IF i > Len(s) THEN <<>>
    ELSE IF s[i] = "_" /\ UnderscoreEnd(s, i) > i
         THEN <<"_">> \o DoublesFrom(s, UnderscoreEnd(s, i) + 1)
         ELSE <<s[i]>> \o DoublesFrom(s, i + 1)

StripDoubles(s) == DoublesFrom(s, 1)

\* cleanTitle with the brand rule of cleanName, as its comment describes it
cleanTitleStripBrands(r) ==
    LET s0 == IF \E i \in 1..Len(r) : r[i] = "/" THEN LastSegment(r) ELSE r
        s  == Trim(StripDoubles(StripTitleSize(StripBrands(StripTitlePrefix(s0)))))
    IN  IF s = <<>> THEN r ELSE s

cleanTitle(r) ==
    LET s0 == IF \E i \in 1..Len(r) : r[i] = "/" THEN LastSegment(r) ELSE r
        s  == Trim(StripDoubles(StripTitleSize(StripTitlePrefix(s0))))
    IN  IF s = <<>> THEN r ELSE s

-----------------------------------------------------------------------------
(* Names handed to cleanName: up to MaxParts fragments, concatenated       *)

MaxParts == 3

NameFragments ==
    { <<"A","r","c","h","_">>,
      <<"C","a","t","e","g","o","r","y","-">>,
      <<"a","w","s">>,
      <<"A","m","a","z","o","n">>,
      <<"A">>,
      <<"W","S">>,
      <<"_","4","8">>,
      <<"-">>,
      <<"x">>,
      <<".">>,
      <<".","s","v","g">>,
      <<".","S","V","G">> }

FragmentSeqs(F, n) == UNION { [1..k -> F] : k \in 1..n }

Names == { Concat(p) : p \in FragmentSeqs(NameFragments, MaxParts) }

NameOff == /\ name = <<>> /\ isFile = FALSE /\ cleaned = <<>>
           /\ recleaned = <<>> /\ nstage = "off"

TitleOff == /\ raw = <<>> /\ title = <<>> /\ tstage = "off"

RenameOff == /\ tree = {} /\ tree0 = {} /\ rnDryRun = FALSE
             /\ stack = <<>> /\ renames = <<>> /\ rnpc = "off"

MergeOff == /\ source = <<>> /\ cfg = <<>> /\ dest = <<>> /\ dest0 = <<>>
            /\ archCats = <<>> /\ resCats = <<>> /\ autoAlias = <<>>
            /\ alias = <<>> /\ tasks = <<>> /\ sum = <<>>
            /\ rpc = "off" /\ crash = "none"

SyncOff == /\ svg = <<>> /\ svg0 = <<>> /\ syDryRun = FALSE /\ sywrites = <<>>

PipeOff == /\ rawDir = <<>> /\ rawSum = <<>> /\ iconsSum = <<>>
           /\ iconsOf = {} /\ run = <<>> /\ history = <<>>

InitName ==
    /\ name \in Names
    /\ isFile \in BOOLEAN
    /\ cleaned = <<>>
    /\ recleaned = <<>>
    /\ nstage = "input"
    /\ TitleOff
    /\ RenameOff
    /\ MergeOff
    /\ SyncOff
    /\ PipeOff

\* one pass of the renamer over the name
Normalize ==
    /\ nstage = "input"
    /\ cleaned' = cleanName(name, isFile)
    /\ nstage' = "once"
    /\ UNCHANGED <<name, isFile, recleaned, titleVars, renameVars, mergeVars, syncVars, pipeVars>>

\* a second pass, over the name the first pass produced
NormalizeAgain ==
    /\ nstage = "once"
    /\ recleaned' = cleanName(cleaned, isFile)
    /\ nstage' = "twice"
    /\ UNCHANGED <<name, isFile, cleaned, titleVars, renameVars, mergeVars, syncVars, pipeVars>>

NextName == Normalize \/ NormalizeAgain

SpecName == InitName /\ [][NextName]_vars

-----------------------------------------------------------------------------
(* Titles handed to cleanTitle: up to MaxTitleParts fragments              *)

MaxTitleParts == 3

TitleFragments ==
    { <<"A","r","c","h","_">>,
      <<"R","e","s","_">>,
      <<"A","W","S">>,
      <<"A","m","a","z","o","n","-">>,
      <<"E","C","2">>,
      <<"_","4","8">>,
      <<"/">>,
      <<"-">>,
      <<"_">>,
      <<"x">> }

Titles == { Concat(p) : p \in FragmentSeqs(TitleFragments, MaxTitleParts) }

InitTitle ==
    /\ raw \in Titles
    /\ title = <<>>
    /\ tstage = "input"
    /\ NameOff
    /\ RenameOff
    /\ MergeOff
    /\ SyncOff
    /\ PipeOff

\* the title rule applied to the text of one <title> element
CleanTitle ==
    /\ tstage = "input"
    /\ title' = cleanTitle(raw)
    /\ tstage' = "done"
    /\ UNCHANGED <<raw, nameVars, renameVars, mergeVars, syncVars, pipeVars>>

NextTitle == CleanTitle

SpecTitle == InitTitle /\ [][NextTitle]_vars

-----------------------------------------------------------------------------
(* svg-title.js: processSvg, run over one SVG file pass after pass         *)

\* String.prototype.trim: white space
IsWs(c) == c \in {" ", "\t", "\n"}

RECURSIVE WsTrimLeft(_)
WsTrimLeft(s) ==
    IF s # <<>> /\ IsWs(Head(s)) THEN WsTrimLeft(Tail(s)) ELSE s

RECURSIVE WsTrimRight(_)
WsTrimRight(s) ==
    IF s # <<>> /\ IsWs(s[Len(s)])
    THEN WsTrimRight(SubSeq(s, 1, Len(s) - 1))
    ELSE s

WsTrim(s) == WsTrimRight(WsTrimLeft(s))

\* an SVG file, as far as processSvg looks at it: whether the pattern
\* <title>...</title> matches, and the text of the first match's group
NoTitle == [has |-> FALSE, text |-> <<>>]
WithTitle(t) == [has |-> TRUE, text |-> t]

\* processSvg: the file it leaves, and whether it called fs.writeFile
processSvg(f, dry) ==
    IF ~f.has THEN [svg |-> f, wrote |-> FALSE]
    ELSE LET original == WsTrim(f.text)
             cleanedT == cleanTitle(original)
         IN  IF original = cleanedT THEN [svg |-> f, wrote |-> FALSE]
             ELSE IF dry THEN [svg |-> f, wrote |-> FALSE]
             ELSE [svg |-> WithTitle(cleanedT), wrote |-> TRUE]

MaxPasses == 2

SvgFragments == TitleFragments \cup { <<" ">> }

SvgTitles == { Concat(p) : p \in FragmentSeqs(SvgFragments, MaxTitleParts) }

InitSync ==
    /\ svg \in {NoTitle} \cup { WithTitle(t) : t \in SvgTitles }
    /\ svg0 = svg
    /\ syDryRun \in BOOLEAN
    /\ sywrites = <<>>
    /\ NameOff
    /\ TitleOff
    /\ RenameOff
    /\ MergeOff
    /\ PipeOff

\* one run of svg-title.js over the file
SyncPass ==
    /\ Len(sywrites) < MaxPasses
    /\ LET r == processSvg(svg, syDryRun) IN
         /\ svg' = r.svg
         /\ sywrites' = Append(sywrites, r.wrote)
    /\ UNCHANGED <<svg0, syDryRun, nameVars, titleVars, renameVars, mergeVars,
                   pipeVars>>

NextSync == SyncPass

SpecSync == InitSync /\ [][NextSync]_vars

-----------------------------------------------------------------------------
(* rename.js: renameSafe and processDir over a tree                        *)
(*                                                                         *)
(* A node is [id, parent, name, isDir]; the root directory is node 0 and   *)
(* is not in the set.  A node's id stands for its content: a rename keeps  *)
(* it, an overwrite destroys it.                                           *)

Root == 0
NoNode == -1

Child(t, dir, nm) ==
    IF \E n \in t : n.parent = dir /\ n.name = nm
    THEN (CHOOSE n \in t : n.parent = dir /\ n.name = nm).id
    ELSE NoNode

NodeOf(t, id) == CHOOSE n \in t : n.id = id

IsDirNode(t, id) == id = Root \/ (\E n \in t : n.id = id /\ n.isDir)

\* the node a path (a sequence of names below cfg.root) leads to
RECURSIVE ResolveFrom(_, _, _)
ResolveFrom(t, dir, path) ==
    IF path = <<>> THEN dir
    ELSE IF ~IsDirNode(t, dir) THEN NoNode
    ELSE LET c == Child(t, dir, Head(path)) IN
         IF c = NoNode THEN NoNode ELSE ResolveFrom(t, c, Tail(path))

ResolvePath(t, path) == ResolveFrom(t, Root, path)

\* fs.readdir(dir, { withFileTypes: true })
readdir(t, dir) ==
    { [name |-> n.name, isDir |-> n.isDir] : n \in { m \in t : m.parent = dir } }

RECURSIVE Descendants(_, _)
Descendants(t, id) ==
    LET kids == { n.id : n \in { m \in t : m.parent = id } } IN
    kids \cup UNION { Descendants(t, k) : k \in kids }

\* fs.rename(src, dst) on existing src: an entry at dst is replaced
FsRename(t, dir, oldName, newName) ==
    LET src  == Child(t, dir, oldName)
        dst  == Child(t, dir, newName)
        gone == IF dst = NoNode \/ dst = src THEN {}
                ELSE {dst} \cup Descendants(t, dst)
    IN  { IF n.id = src THEN [n EXCEPT !.name = newName] ELSE n :
             n \in { m \in t : m.id \notin gone } }

\* renameSafe without the existsSync test
renameUnguarded(t, dry, path, oldName, newName) ==
    LET dir == ResolvePath(t, path)
        src == IF dir = NoNode THEN NoNode ELSE Child(t, dir, oldName)
        dst == IF dir = NoNode THEN NoNode ELSE Child(t, dir, newName)
        call(o) == [dir |-> dir, node |-> src, old |-> oldName, new |-> newName,
                    existed |-> dst # NoNode, outcome |-> o]
    IN  IF oldName = newName THEN [tree |-> t, call |-> call("same")]
        ELSE IF dry THEN [tree |-> t, call |-> call("dry")]
        ELSE IF src = NoNode THEN [tree |-> t, call |-> call("error")]
        ELSE [tree |-> FsRename(t, dir, oldName, newName), call |-> call("renamed")]

\* renameSafe(parent, oldName, newName): the tree afterwards and what was done
renameSafe(t, dry, path, oldName, newName) ==
    LET dir == ResolvePath(t, path)
        src == IF dir = NoNode THEN NoNode ELSE Child(t, dir, oldName)
        dst == IF dir = NoNode THEN NoNode ELSE Child(t, dir, newName)
        call(o) == [dir |-> dir, node |-> src, old |-> oldName, new |-> newName,
                    existed |-> dst # NoNode, outcome |-> o]
    IN  IF oldName = newName THEN [tree |-> t, call |-> call("same")]
        ELSE IF dry THEN [tree |-> t, call |-> call("dry")]
        ELSE IF dst # NoNode THEN [tree |-> t, call |-> call("skip")]
        ELSE IF src = NoNode THEN [tree |-> t, call |-> call("error")]
        ELSE [tree |-> FsRename(t, dir, oldName, newName), call |-> call("renamed")]

\* a processDir call: its directory, and the entries of its listing still to do
Frame(t, path) ==
    [path |-> path, todo |-> readdir(t, ResolvePath(t, path)), cur |-> <<>>]

Top == stack[Len(stack)]
Below == SubSeq(stack, 1, Len(stack) - 1)

\* the runner calls processDir(cfg.root), which lists the root
RnStart ==
    /\ rnpc = "start"
    /\ stack' = <<Frame(tree, <<>>)>>
    /\ rnpc' = "walk"
    /\ UNCHANGED <<tree, tree0, rnDryRun, renames, nameVars, titleVars, mergeVars, syncVars, pipeVars>>

\* the loop reaches a file: renameSafe(dir, name, cleanName(name, true))
RnFile ==
    /\ rnpc = "walk"
    /\ \E e \in Top.todo :
         /\ ~e.isDir
         /\ LET r == renameSafe(tree, rnDryRun, Top.path, e.name,
                                cleanName(e.name, TRUE))
            IN  /\ tree' = r.tree
                /\ renames' = Append(renames, r.call)
                /\ rnpc' = IF r.call.outcome = "error" THEN "failed" ELSE "walk"
         /\ stack' = Below \o <<[Top EXCEPT !.todo = @ \ {e}]>>
    /\ UNCHANGED <<tree0, rnDryRun, nameVars, titleVars, mergeVars, syncVars, pipeVars>>

\* processDir with the two statements of the directory branch exchanged: the
\* directory is renamed first, then processDir(full) lists it under its old
\* name
RnEnterDirRenameFirst ==
    /\ rnpc = "walk"
    /\ \E e \in Top.todo :
         /\ e.isDir
         /\ LET sub == Top.path \o <<e.name>>
                r == renameSafe(tree, rnDryRun, Top.path, e.name,
                                cleanName(e.name, FALSE))
            IN  /\ tree' = r.tree
                /\ renames' = Append(renames, r.call)
                /\ IF ResolvePath(r.tree, sub) = NoNode
                   THEN /\ rnpc' = "failed"
                        /\ UNCHANGED stack
                   ELSE /\ rnpc' = "walk"
                        /\ stack' = Below
                               \o <<[Top EXCEPT !.todo = @ \ {e}, !.cur = e.name]>>
                               \o <<Frame(r.tree, sub)>>
    /\ UNCHANGED <<tree0, rnDryRun, nameVars, titleVars, mergeVars, syncVars,
                   pipeVars>>

\* the loop reaches a directory: processDir(full) lists it first
RnEnterDir ==
    /\ rnpc = "walk"
    /\ \E e \in Top.todo :
         /\ e.isDir
         /\ LET sub == Top.path \o <<e.name>> IN
            IF ResolvePath(tree, sub) = NoNode
            THEN /\ rnpc' = "failed"
                 /\ UNCHANGED stack
            ELSE /\ rnpc' = "walk"
                 /\ stack' = Below
                        \o <<[Top EXCEPT !.todo = @ \ {e}, !.cur = e.name]>>
                        \o <<Frame(tree, sub)>>
    /\ UNCHANGED <<tree, tree0, rnDryRun, renames, nameVars, titleVars, mergeVars, syncVars, pipeVars>>

\* processDir(full) returns: renameSafe(dir, name, cleanName(name, false))
RnLeaveDir ==
    /\ rnpc = "walk"
    /\ Len(stack) > 1
    /\ Top.todo = {}
    /\ LET parent == stack[Len(stack) - 1]
           r == renameSafe(tree, rnDryRun, parent.path, parent.cur,
                           cleanName(parent.cur, FALSE))
       IN  /\ tree' = r.tree
           /\ renames' = Append(renames, r.call)
           /\ rnpc' = IF r.call.outcome = "error" THEN "failed" ELSE "walk"
           /\ stack' = SubSeq(stack, 1, Len(stack) - 2)
                          \o <<[parent EXCEPT !.cur = <<>>]>>
    /\ UNCHANGED <<tree0, rnDryRun, nameVars, titleVars, mergeVars, syncVars, pipeVars>>

\* processDir(cfg.root) returns: "Rename pass complete."
RnFinish ==
    /\ rnpc = "walk"
    /\ Len(stack) = 1
    /\ Top.todo = {}
    /\ stack' = <<>>
    /\ rnpc' = "done"
    /\ UNCHANGED <<tree, tree0, rnDryRun, renames, nameVars, titleVars, mergeVars, syncVars, pipeVars>>

NextRename == RnStart \/ RnFile \/ RnEnterDir \/ RnLeaveDir \/ RnFinish

(* The trees a run starts from: up to MaxNodes entries below the root, named *)
(* from EntryNames, siblings named differently.  Nodes are numbered parents  *)
(* first and siblings in the order of EntryNames, so that no tree is listed  *)
(* twice.                                                                    *)

MaxNodes == 3

EntryNames ==
    << <<"A","r","c","h","_","A","r","c","h","_","x">>,
       <<"A","r","c","h","_","x">>,
       <<"A","W","S","-","x">>,
       <<"x">> >>

TreeOf(n, par, kind, nm) ==
    { [id |-> i, parent |-> par[i], name |-> EntryNames[nm[i]], isDir |-> kind[i]] :
        i \in 1..n }

Trees ==
    UNION { { TreeOf(n, par, kind, nm) :
                <<par, kind, nm>> \in
                  { x \in [1..n -> 0..(n-1)] \X [1..n -> BOOLEAN]
                            \X [1..n -> 1..Len(EntryNames)] :
                      /\ \A i \in 1..n : x[1][i] < i
                      /\ \A i \in 1..n : x[1][i] # 0 => x[2][x[1][i]]
                      /\ \A i, j \in 1..n :
                           i < j => /\ x[1][i] <= x[1][j]
                                    /\ x[1][i] = x[1][j] => x[3][i] < x[3][j] } } :
            n \in 1..MaxNodes }

InitRename ==
    /\ tree \in Trees
    /\ tree0 = tree
    /\ rnDryRun \in BOOLEAN
    /\ stack = <<>>
    /\ renames = <<>>
    /\ rnpc = "start"
    /\ NameOff
    /\ TitleOff
    /\ MergeOff
    /\ SyncOff
    /\ PipeOff

SpecRename == InitRename /\ [][NextRename]_vars

-----------------------------------------------------------------------------
(* restructure.js: the layout of the raw archive                           *)

\* the four directory prefixes newest() is asked for
AllRoots == {"Architecture-Service-Icons", "Resource-Icons",
             "Architecture-Group-Icons", "Category-Icons"}

sArchMark == <<"A","r","c","h","_">>
sResMark  == <<"R","e","s","_">>
GeneralDirName == <<"A","r","c","h","_","G","e","n","e","r","a","l","-","I","c","o","n","s">>

\* cfg.size and cfg.formats as parseCli leaves them without --size, --formats
CfgSize == "48"
CfgFormats == {"svg"}

\* the category directories an archive may hold under each taxonomy root
ArchDirChoices ==
    { << <<"A","r","c","h","_","G","e","n","e","r","a","l","-","I","c","o","n","s">> >>,
      << <<"A","r","c","h","_","I","o","T">> >>,
      << <<"A","r","c","h","_","C","o","m","p","u","t","e">> >>,
      << <<"A","r","c","h","_","G","e","n","e","r","a","l","-","I","c","o","n","s">>, <<"A","r","c","h","_","I","o","T">> >>,
      << <<"A","r","c","h","_","I","o","T">>, <<"A","r","c","h","_","C","o","m","p","u","t","e">> >>,
      << <<"A","r","c","h","_","C","o","m","p","u","t","e">>, <<"A","r","c","h","_","G","e","n","e","r","a","l","-","I","c","o","n","s">> >> }

ResDirNames ==
    { <<"R","e","s","_","G","e","n","e","r","a","l","-","I","c","o","n","s">>,
      <<"R","e","s","_","I","o","T","-","T","h","i","n","g","s">>,
      <<"R","e","s","_","I","n","t","e","r","n","e","t","-","o","f","-","T","h","i","n","g","s">>,
      <<"R","e","s","_","C","o","m","p","u","t","e">> }

\* the files of every architecture category: <dir>/<sub>/<stem>_<size>.<ext>
ArchFileSeq ==
    << [sub |-> "48",   stem |-> "icon", size |-> "48", ext |-> "svg"],
       [sub |-> "48",   stem |-> "icon", size |-> "48", ext |-> "png"],
       [sub |-> "dark", stem |-> "icon", size |-> "64", ext |-> "svg"] >>

\* the files a resource category may hold, in listing order
ResFileSeq ==
    << [sub |-> "", stem |-> "icon", size |-> "48", ext |-> "svg"],
       [sub |-> "", stem |-> "res",  size |-> "48", ext |-> "svg"],
       [sub |-> "", stem |-> "res",  size |-> "32", ext |-> "svg"] >>

\* the flat category icons, in walk order
CatFileSeq ==
    << [sub |-> "a", stem |-> "cat", size |-> "48", ext |-> "svg"],
       [sub |-> "b", stem |-> "cat", size |-> "48", ext |-> "svg"],
       [sub |-> "a", stem |-> "cat", size |-> "32", ext |-> "svg"] >>

\* the group icons, in walk order
GroupFileSeq ==
    << [sub |-> "", stem |-> "group", size |-> "32", ext |-> "svg"],
       [sub |-> "", stem |-> "group", size |-> "32", ext |-> "png"] >>

\* path.basename of a file
Base(f) == [stem |-> f.stem, size |-> f.size, ext |-> f.ext]

RECURSIVE SeqFilter(_, _)
SeqFilter(q, keep) ==
    IF q = <<>> THEN <<>>
    ELSE (IF Head(q) \in keep THEN <<Head(q)>> ELSE <<>>) \o SeqFilter(Tail(q), keep)

Range(q) == { q[i] : i \in DOMAIN q }

\* matchesSize(fp): an allowed format, and the size in the name or in the path
matchesSize(f) ==
    /\ f.ext \in CfgFormats
    /\ (f.size = CfgSize \/ f.sub = CfgSize)

\* slug(s): lower case, every character outside [a-z0-9] dropped
RECURSIVE slug(_)
slug(s) ==
    IF s = <<>> THEN <<>>
    ELSE LET c == Lower(Head(s)) IN
         (IF c \in Range(Lowers) \cup Digits THEN <<c>> ELSE <<>>) \o slug(Tail(s))

StartsWith(s, p) == Len(s) >= Len(p) /\ SubSeq(s, 1, Len(p)) = p

\* String.prototype.includes
Includes(s, p) ==
    \E i \in 1..(Len(s) - Len(p) + 1) : SubSeq(s, i, i + Len(p) - 1) = p

-----------------------------------------------------------------------------
(* restructure.js: alias resolution                                        *)
(* A Map is a sequence of [key, val] in insertion order.                   *)

NoDir == <<>>

MapKeys(m) == { m[i].key : i \in DOMAIN m }
MapHas(m, k) == k \in MapKeys(m)
MapGet(m, k) ==
    IF MapHas(m, k) THEN m[CHOOSE i \in DOMAIN m : m[i].key = k].val ELSE NoDir
MapSet(m, k, v) ==
    IF MapHas(m, k)
    THEN [i \in DOMAIN m |-> IF m[i].key = k THEN [key |-> k, val |-> v] ELSE m[i]]
    ELSE Append(m, [key |-> k, val |-> v])

\* the loops that fill archCats and resCats from a directory listing
RECURSIVE CatsOf(_, _, _)
CatsOf(listing, mark, acc) ==
    IF listing = <<>> THEN acc
    ELSE LET d == Head(listing) IN
         CatsOf(Tail(listing), mark,
                IF StartsWith(d, mark)
                THEN MapSet(acc, slug(From(d, Len(mark) + 1)), d)
                ELSE acc)

manualAlias ==
    << [key |-> <<"a","p","p","i","n","t","e","g","r","a","t","i","o","n">>, val |-> <<"a","p","p","l","i","c","a","t","i","o","n","i","n","t","e","g","r","a","t","i","o","n">>],
       [key |-> <<"i","o","t">>,            val |-> <<"i","n","t","e","r","n","e","t","o","f","t","h","i","n","g","s">>] >>

\* [...resCats.keys()].find(x => x.includes(k) || k.includes(x))
FirstHit(res, k) ==
    LET hits == { i \in DOMAIN res :
                    Includes(res[i].key, k) \/ Includes(k, res[i].key) }
    IN  IF hits = {} THEN NoDir
        ELSE res[CHOOSE i \in hits : \A j \in hits : i <= j].key

RECURSIVE AutoAliasOf(_, _, _)
AutoAliasOf(archKeys, res, acc) ==
    IF archKeys = <<>> THEN acc
    ELSE LET k == Head(archKeys).key IN
         AutoAliasOf(Tail(archKeys), res,
                     IF ~MapHas(res, k) /\ FirstHit(res, k) # NoDir
                     THEN MapSet(acc, k, FirstHit(res, k))
                     ELSE acc)

RECURSIVE Spread(_, _)
Spread(acc, m) ==
    IF m = <<>> THEN acc ELSE Spread(MapSet(acc, Head(m).key, Head(m).val), Tail(m))

\* { ...manualAlias, ...autoAlias }: the inferred entries written last
AliasAutoLast(auto) == Spread(Spread(<<>>, manualAlias), auto)

\* const alias = { ...autoAlias, ...manualAlias }
AliasOf(auto) == Spread(Spread(<<>>, auto), manualAlias)

\* resCats.get(alias[slugCat] ?? slugCat)
ResDirOf(res, al, k) == MapGet(res, IF MapHas(al, k) THEN MapGet(al, k) ELSE k)

-----------------------------------------------------------------------------
(* restructure.js: the destination tree                                    *)

DestRoot   == [kind |-> "root",       name |-> <<>>]
DestLight  == [kind |-> "light",      name |-> <<>>]
DestDark   == [kind |-> "dark",       name |-> <<>>]
DestGroup  == [kind |-> "group",      name |-> <<>>]
DestCats   == [kind |-> "categories", name |-> <<>>]
DestCat(d) == [kind |-> "cat",        name |-> d]

EmptyDest == [dirs |-> {}, files |-> {}]

\* what an earlier run over another archive left behind
StaleDest ==
    [dirs  |-> {DestRoot, DestCats, DestCat(<<"A","r","c","h","_","C","o","m","p","u","t","e">>)},
     files |-> { [dir |-> DestCats,
                  base |-> [stem |-> "cat", size |-> "48", ext |-> "svg"],
                  from |-> [root |-> "stale", dir |-> <<>>, f |-> [sub |-> "", stem |-> "old", size |-> "", ext |-> "svg"]]],
                 [dir |-> DestCat(<<"A","r","c","h","_","C","o","m","p","u","t","e">>),
                  base |-> [stem |-> "icon", size |-> "48", ext |-> "svg"],
                  from |-> [root |-> "stale", dir |-> <<>>, f |-> [sub |-> "", stem |-> "old", size |-> "", ext |-> "svg"]]] }]

Exists(d, dir, base) == \E x \in d.files : x.dir = dir /\ x.base = base

\* ensureDir(d) = fs.mkdir(d, { recursive: true })
ensureDir(d, dir) == [d EXCEPT !.dirs = @ \cup {DestRoot, dir}]

\* fs.copyFile(src, dst): an existing dst is replaced
copyFile(d, dir, base, from) ==
    [d EXCEPT !.files = { x \in @ : ~(x.dir = dir /\ x.base = base) }
                          \cup {[dir |-> dir, base |-> base, from |-> from]}]

\* fs.copyFile(src, dst, COPYFILE_EXCL) when dst does not exist
copyFileExcl(d, dir, base, from) ==
    [d EXCEPT !.files = @ \cup {[dir |-> dir, base |-> base, from |-> from]}]

Src(root, dir, f) == [root |-> root, dir |-> dir, f |-> f]

-----------------------------------------------------------------------------
(* restructure.js: the run                                                 *)

ZeroSum == [copied |-> 0, skipped |-> 0, merged |-> 0, archOnly |-> 0,
            unmatched |-> <<>>]

IsGeneral(t) == t.dir = GeneralDirName

\* the candidate files of one category, in the order the two walks push them
ArchJobs(dir) ==
    LET fs == SeqFilter(ArchFileSeq,
                        { f \in Range(ArchFileSeq) : f.sub = CfgSize /\ matchesSize(f) })
    IN  [i \in DOMAIN fs |->
            [src |-> Src("arch", dir, fs[i]), dir |-> DestCat(dir), base |-> Base(fs[i])]]

ResFilesOf(src) == SeqFilter(ResFileSeq, src.resFiles)

ResJobs(src, dir, resDir) ==
    LET fs == SeqFilter(ResFilesOf(src),
                        { f \in Range(ResFileSeq) : matchesSize(f) })
    IN  [i \in DOMAIN fs |->
            [src |-> Src("res", resDir, fs[i]), dir |-> DestCat(dir), base |-> Base(fs[i])]]

\* how often the else of the resource walk runs: it belongs to
\* "if (matchesSize(f))", so once for every resource file that does not match
ElseRuns(src, resDir) ==
    IF resDir = NoDir THEN 0
    ELSE Len(SeqFilter(ResFilesOf(src),
                       { f \in Range(ResFileSeq) : ~matchesSize(f) }))

RECURSIVE Repeat(_, _)
Repeat(x, n) == IF n = 0 THEN <<>> ELSE <<x>> \o Repeat(x, n - 1)

\* lines 106-110 with ensureDir(cfg.dest) moved ahead of the four newest() calls
LocateAfterEnsureDir ==
    /\ rpc = "start"
    /\ dest' = ensureDir(dest, DestRoot)
    /\ rpc' = IF source.roots # AllRoots THEN "aborted" ELSE "resolve"
    /\ UNCHANGED <<source, cfg, dest0, archCats, resCats, autoAlias, alias,
                   tasks, sum, crash, nameVars, titleVars, renameVars, syncVars, pipeVars>>

\* lines 106-110: newest() for the four roots, which throws "Missing <pfx>*"
\* when no directory has the prefix, then ensureDir(cfg.dest)
Locate ==
    /\ rpc = "start"
    /\ IF source.roots # AllRoots
       THEN /\ rpc' = "aborted"
            /\ UNCHANGED dest
       ELSE /\ rpc' = "resolve"
            /\ dest' = ensureDir(dest, DestRoot)
    /\ UNCHANGED <<source, cfg, dest0, archCats, resCats, autoAlias, alias,
                   tasks, sum, crash, nameVars, titleVars, renameVars, syncVars, pipeVars>>

\* a mergeCat call up to its first await
NewTask(res, al, entry) ==
    [slug |-> entry.key, dir |-> entry.val,
     res |-> ResDirOf(res, al, entry.key),
     pc |-> "mkdir", jobs |-> <<>>, i |-> 0,
     workers |-> [w \in 1..cfg.concurrency |-> 0],
     taken |-> <<>>]

\* lines 114-134 and the map() of line 234: the maps are filled and every
\* mergeCat runs up to its first await
ResolveAliases ==
    /\ rpc = "resolve"
    /\ LET ac == CatsOf(source.arch, sArchMark, <<>>)
           rc == CatsOf(source.res, sResMark, <<>>)
           au == AutoAliasOf(ac, rc, <<>>)
           al == AliasOf(au)
       IN  /\ archCats' = ac
           /\ resCats' = rc
           /\ autoAlias' = au
           /\ alias' = al
           /\ tasks' = [t \in DOMAIN ac |-> NewTask(rc, al, ac[t])]
    /\ rpc' = "merge"
    /\ UNCHANGED <<source, cfg, dest, dest0, sum, crash,
                   nameVars, titleVars, renameVars, syncVars, pipeVars>>

\* mergeCat: ensureDir(dstDir), or processGeneral's two ensureDir calls
TaskEnsureDir(t) ==
    /\ rpc = "merge"
    /\ tasks[t].pc = "mkdir"
    /\ dest' = IF IsGeneral(tasks[t])
               THEN ensureDir(ensureDir(dest, DestLight), DestDark)
               ELSE ensureDir(dest, DestCat(tasks[t].dir))
    /\ tasks' = [tasks EXCEPT ![t].pc = IF IsGeneral(tasks[t]) THEN "ingest" ELSE "enum"]
    /\ UNCHANGED <<source, cfg, dest0, archCats, resCats, autoAlias, alias,
                   sum, rpc, crash, nameVars, titleVars, renameVars, syncVars, pipeVars>>

\* the workers as Array.from starts them: each runs up to its first await,
\* so in a live run worker w holds job w, and in a dry run the first worker
\* counts every job.  taken lists the indices read by jobs[i++], in order.
Spawned(t, jobs) ==
    IF cfg.dryRun
    THEN [t EXCEPT !.pc = "copy", !.jobs = jobs, !.i = Len(jobs),
                   !.taken = [k \in 1..Len(jobs) |-> k]]
    ELSE LET n == IF Len(jobs) < cfg.concurrency THEN Len(jobs)
                  ELSE cfg.concurrency
         IN  [t EXCEPT !.pc = "copy", !.jobs = jobs,
                       !.i = n,
                       !.workers = [w \in 1..cfg.concurrency |->
                                       IF w <= Len(jobs) THEN w ELSE 0],
                       !.taken = [k \in 1..n |-> k]]

\* mergeCat lines 208-230: the two walks fill jobs, the else of the second
\* walk updates sum, and the workers start
TaskEnumerate(t) ==
    /\ rpc = "merge"
    /\ tasks[t].pc = "enum"
    /\ LET task == tasks[t]
           jobs == ArchJobs(task.dir)
                     \o (IF task.res # NoDir
                         THEN ResJobs(source, task.dir, task.res) ELSE <<>>)
           n == ElseRuns(source, task.res)
       IN  /\ tasks' = [tasks EXCEPT ![t] = Spawned(task, jobs)]
           /\ sum' = [sum EXCEPT
                        !.archOnly = @ + n,
                        !.unmatched = @ \o Repeat(task.dir, n),
                        !.copied = @ + (IF cfg.dryRun THEN Len(jobs) ELSE 0)]
    /\ UNCHANGED <<source, cfg, dest, dest0, archCats, resCats, autoAlias,
                   alias, rpc, crash, nameVars, titleVars, renameVars, syncVars, pipeVars>>

\* a worker whose cursor is read before the await and written after it: the
\* job it takes next is the one at the index it read
WorkerStepStale(t, w) ==
    /\ rpc = "merge"
    /\ tasks[t].pc = "copy"
    /\ tasks[t].workers[w] # 0
    /\ LET task == tasks[t]
           job == task.jobs[task.workers[w]]
           clash == Exists(dest, job.dir, job.base)
           more == task.i < Len(task.jobs)
       IN  /\ dest' = IF clash THEN dest
                      ELSE copyFileExcl(dest, job.dir, job.base, job.src)
           /\ sum' = IF clash THEN [sum EXCEPT !.skipped = @ + 1]
                     ELSE [sum EXCEPT !.copied = @ + 1]
           /\ tasks' = [tasks EXCEPT
                          ![t].workers[w] = IF more THEN task.workers[w] + 1 ELSE 0,
                          ![t].i = IF more THEN task.i + 1 ELSE task.i,
                          ![t].taken = IF more THEN Append(@, task.workers[w] + 1) ELSE @]
    /\ UNCHANGED <<source, cfg, dest0, archCats, resCats, autoAlias, alias,
                   rpc, crash, nameVars, titleVars, renameVars, syncVars, pipeVars>>

\* worker: a copyFile(src, dst, COPYFILE_EXCL) settles; the worker counts it
\* and takes jobs[i++] if there is one
WorkerStep(t, w) ==
    /\ rpc = "merge"
    /\ tasks[t].pc = "copy"
    /\ tasks[t].workers[w] # 0
    /\ LET task == tasks[t]
           job == task.jobs[task.workers[w]]
           clash == Exists(dest, job.dir, job.base)
           more == task.i < Len(task.jobs)
       IN  /\ dest' = IF clash THEN dest
                      ELSE copyFileExcl(dest, job.dir, job.base, job.src)
           /\ sum' = IF clash THEN [sum EXCEPT !.skipped = @ + 1]
                     ELSE [sum EXCEPT !.copied = @ + 1]
           /\ tasks' = [tasks EXCEPT
                          ![t].workers[w] = IF more THEN task.i + 1 ELSE 0,
                          ![t].i = IF more THEN task.i + 1 ELSE task.i,
                          ![t].taken = IF more THEN Append(@, task.i + 1) ELSE @]
    /\ UNCHANGED <<source, cfg, dest0, archCats, resCats, autoAlias, alias,
                   rpc, crash, nameVars, titleVars, renameVars, syncVars, pipeVars>>

\* mergeCat line 231, once Promise.all of the workers has resolved
TaskFinish(t) ==
    /\ rpc = "merge"
    /\ tasks[t].pc = "copy"
    /\ \A w \in DOMAIN tasks[t].workers : tasks[t].workers[w] = 0
    /\ tasks' = [tasks EXCEPT ![t].pc = "end"]
    /\ sum' = IF tasks[t].res # NoDir THEN [sum EXCEPT !.merged = @ + 1] ELSE sum
    /\ UNCHANGED <<source, cfg, dest, dest0, archCats, resCats, autoAlias,
                   alias, rpc, crash, nameVars, titleVars, renameVars, syncVars, pipeVars>>

\* /([_-]|^)dark([_-]|\.svg$)/i on the name, or a path segment "dark"
IsDark(f) == f.sub = "dark" \/ f.stem = "dark"

\* copies with COPYFILE_EXCL in order; stops at the first destination that
\* exists.  [dest, failed]
RECURSIVE ExclCopies(_, _)
ExclCopies(d, todo) ==
    IF todo = <<>> THEN [dest |-> d, failed |-> FALSE]
    ELSE LET j == Head(todo) IN
         IF Exists(d, j.dir, j.base) THEN [dest |-> d, failed |-> TRUE]
         ELSE ExclCopies(copyFileExcl(d, j.dir, j.base, j.src), Tail(todo))

\* what ingest(archDir) and ingest(resDir) copy, in order: every .svg
GeneralCopies(src, task) ==
    LET svgs(q) == SeqFilter(q, { f \in Range(q) : f.ext = "svg" })
        a == svgs(ArchFileSeq)
        r == IF task.res = NoDir THEN <<>> ELSE svgs(ResFilesOf(src))
        to(f) == IF IsDark(f) THEN DestDark ELSE DestLight
    IN  [i \in DOMAIN a |->
            [src |-> Src("arch", task.dir, a[i]), dir |-> to(a[i]), base |-> Base(a[i])]]
        \o
        [i \in DOMAIN r |->
            [src |-> Src("res", task.res, r[i]), dir |-> to(r[i]), base |-> Base(r[i])]]

\* processGeneral: ingest(archDir), ingest(resDir); a copyFile that fails
\* rejects mergeCat and, through Promise.all, ends the run
GeneralIngest(t) ==
    /\ rpc = "merge"
    /\ tasks[t].pc = "ingest"
    /\ LET r == IF cfg.dryRun THEN [dest |-> dest, failed |-> FALSE]
                ELSE ExclCopies(dest, GeneralCopies(source, tasks[t]))
       IN  /\ dest' = r.dest
           /\ IF r.failed
              THEN /\ rpc' = "crashed"
                   /\ crash' = "general"
                   /\ UNCHANGED <<tasks, sum>>
              ELSE /\ tasks' = [tasks EXCEPT ![t].pc = "end"]
                   /\ sum' = [sum EXCEPT !.archOnly = @ + 1]
                   /\ UNCHANGED <<rpc, crash>>
    /\ UNCHANGED <<source, cfg, dest0, archCats, resCats, autoAlias, alias,
                   nameVars, titleVars, renameVars, syncVars, pipeVars>>

\* copyGroup, once every mergeCat has resolved: copyAllSvgs(groupDir, ...)
CopyGroup ==
    /\ rpc = "merge"
    /\ \A t \in DOMAIN tasks : tasks[t].pc = "end"
    /\ LET svgs == SeqFilter(GroupFileSeq, { f \in Range(GroupFileSeq) : f.ext = "svg" })
           made == ensureDir(dest, DestGroup)
           put[i \in 0..Len(svgs)] ==
               IF i = 0 THEN made
               ELSE copyFile(put[i - 1], DestGroup, Base(svgs[i]),
                             Src("group", <<>>, svgs[i]))
       IN  dest' = IF cfg.dryRun THEN made ELSE put[Len(svgs)]
    /\ rpc' = "cats"
    /\ UNCHANGED <<source, cfg, dest0, archCats, resCats, autoAlias, alias,
                   tasks, sum, crash, nameVars, titleVars, renameVars, syncVars, pipeVars>>

\* the files copyCats copies: matching size, first seen destination only
RECURSIVE CatCopies(_, _)
CatCopies(todo, seen) ==
    IF todo = <<>> THEN <<>>
    ELSE LET f == Head(todo) IN
         IF matchesSize(f) /\ Base(f) \notin seen
         THEN <<[src |-> Src("cat", <<>>, f), dir |-> DestCats, base |-> Base(f)]>>
                 \o CatCopies(Tail(todo), seen \cup {Base(f)})
         ELSE CatCopies(Tail(todo), seen)

\* copyCats: a copyFile that fails ends the run
CopyCats ==
    /\ rpc = "cats"
    /\ LET made == ensureDir(dest, DestCats)
           r == IF cfg.dryRun THEN [dest |-> made, failed |-> FALSE]
                ELSE ExclCopies(made, CatCopies(CatFileSeq, {}))
       IN  /\ dest' = r.dest
           /\ rpc' = IF r.failed THEN "crashed" ELSE "checksum"
           /\ crash' = IF r.failed THEN "categories" ELSE crash
    /\ UNCHANGED <<source, cfg, dest0, archCats, resCats, autoAlias, alias,
                   tasks, sum, nameVars, titleVars, renameVars, syncVars, pipeVars>>

ChecksumBase == [stem |-> "checksum", size |-> "", ext |-> "txt"]

\* lines 239-269: the optional checksum.txt is copied, the summary printed and
\* the default raw directory removed
Finish ==
    /\ rpc = "checksum"
    /\ \E hasChecksum \in BOOLEAN, userSetSource \in BOOLEAN :
         /\ dest' = IF ~cfg.dryRun /\ hasChecksum
                    THEN copyFile(dest, DestRoot, ChecksumBase,
                                  Src("source", <<>>,
                                      [sub |-> "", stem |-> "checksum",
                                       size |-> "", ext |-> "txt"]))
                    ELSE dest
         /\ source' = IF ~cfg.dryRun /\ ~userSetSource
                      THEN [source EXCEPT !.present = FALSE]
                      ELSE source
    /\ rpc' = "done"
    /\ UNCHANGED <<cfg, dest0, archCats, resCats, autoAlias, alias, tasks, sum,
                   crash, nameVars, titleVars, renameVars, syncVars, pipeVars>>

NextMerge ==
    \/ Locate
    \/ ResolveAliases
    \/ \E t \in DOMAIN tasks : TaskEnsureDir(t)
    \/ \E t \in DOMAIN tasks : TaskEnumerate(t)
    \/ \E t \in DOMAIN tasks : \E w \in DOMAIN tasks[t].workers : WorkerStep(t, w)
    \/ \E t \in DOMAIN tasks : TaskFinish(t)
    \/ \E t \in DOMAIN tasks : GeneralIngest(t)
    \/ CopyGroup
    \/ CopyCats
    \/ Finish

(* The runs: an archive with one or two architecture categories and up to   *)
(* MaxResDirs resource categories in any listing order, every resource       *)
(* category holding the same chosen files; a destination that is absent or   *)
(* left by an earlier run; at most one root missing.                         *)

MaxResDirs == 2
MaxConcurrency == 2

RECURSIVE Orderings(_)
Orderings(S) ==
    IF S = {} THEN {<<>>}
    ELSE UNION { { <<x>> \o q : q \in Orderings(S \ {x}) } : x \in S }

ResDirChoices ==
    UNION { Orderings(S) : S \in { T \in SUBSET ResDirNames : Cardinality(T) <= MaxResDirs } }

\* the files every resource category holds: none, one named like the
\* architecture icon, two of which one has another size, or all three
ResFileChoices ==
    { {},
      { ResFileSeq[1] },
      { ResFileSeq[2], ResFileSeq[3] },
      { ResFileSeq[1], ResFileSeq[2], ResFileSeq[3] } }

InitMerge ==
    /\ \E missing \in SUBSET AllRoots, arch \in ArchDirChoices,
          res \in ResDirChoices, rf \in ResFileChoices :
         /\ Cardinality(missing) <= 1
         /\ source = [present |-> TRUE, roots |-> AllRoots \ missing,
                      arch |-> arch, res |-> res, resFiles |-> rf]
    /\ cfg \in [dryRun : BOOLEAN, concurrency : 1..MaxConcurrency]
    /\ dest \in {EmptyDest, StaleDest}
    /\ dest0 = dest
    /\ archCats = <<>>
    /\ resCats = <<>>
    /\ autoAlias = <<>>
    /\ alias = <<>>
    /\ tasks = <<>>
    /\ sum = ZeroSum
    /\ rpc = "start"
    /\ crash = "none"
    /\ NameOff
    /\ TitleOff
    /\ RenameOff
    /\ SyncOff
    /\ PipeOff

SpecMerge == InitMerge /\ [][NextMerge]_vars

-----------------------------------------------------------------------------
(* download.js, and restructure.js as far as it touches the raw directory  *)
(* and the checksum markers: runs that follow one another in one workspace *)

MaxArchives == 2
MaxRuns == 4

Archives == 1..MaxArchives

\* raw-aws-icons does not exist
NoArchive == 0

\* sha256(fp): the hex digest of an archive; different archives, different
\* digests
sha256(a) == <<"h">> \o [k \in 1..a |-> "f"]

\* the text writeChecksum writes: `${sum}\n`
Marker(h) == h \o <<"\n">>

\* readChecksum with raw-aws-icons/checksum.txt as the only location
readChecksumPrimaryOnly ==
    IF rawSum # <<>> THEN WsTrim(rawSum) ELSE <<>>

\* readChecksum: the first of CHECKSUM_FILES that exists, trimmed; null (the
\* empty string here) when none does
readChecksum ==
    IF rawSum # <<>> THEN WsTrim(rawSum)
    ELSE IF iconsSum # <<>> THEN WsTrim(iconsSum)
    ELSE <<>>

\* the raw directory and the two markers
Snap == [rawDir |-> rawDir, rawSum |-> rawSum, iconsSum |-> iconsSum]

NoRun == [kind |-> "idle", pc |-> "idle", zip |-> NoArchive, latest |-> <<>>,
          stored |-> <<>>, dry |-> FALSE, user |-> FALSE,
          before |-> [rawDir |-> NoArchive, rawSum |-> <<>>, iconsSum |-> <<>>]]

\* the run that ends, as the history keeps it
Ended(r, outcome, after) ==
    [kind |-> r.kind, zip |-> r.zip, latest |-> r.latest, stored |-> r.stored,
     dry |-> r.dry, user |-> r.user, outcome |-> outcome,
     before |-> r.before, after |-> after]

InitPipe ==
    /\ rawDir = NoArchive
    /\ rawSum = <<>>
    /\ iconsSum = <<>>
    /\ iconsOf = {}
    /\ run = NoRun
    /\ history = <<>>
    /\ NameOff
    /\ TitleOff
    /\ RenameOff
    /\ MergeOff
    /\ SyncOff

\* main, lines 97-104: the page is fetched, the archive downloaded and hashed,
\* the stored checksum read and compared
DlFetch ==
    /\ run.kind = "idle"
    /\ Len(history) < MaxRuns
    /\ \E a \in Archives :
         LET latestSum == sha256(a)
             storedSum == readChecksum
         IN  run' = [NoRun EXCEPT
                       !.kind = "download",
                       !.pc = IF storedSum # <<>> /\ storedSum = latestSum
                              THEN "skip" ELSE "extract",
                       !.zip = a, !.latest = latestSum, !.stored = storedSum,
                       !.before = Snap]
    /\ UNCHANGED <<rawDir, rawSum, iconsSum, iconsOf, history,
                   nameVars, titleVars, renameVars, mergeVars, syncVars>>

\* getLatestZipUrl or downloadFile throws: main's catch ends the run
DlFetchFails ==
    /\ run.kind = "idle"
    /\ Len(history) < MaxRuns
    /\ history' = Append(history,
                         Ended([NoRun EXCEPT !.kind = "download", !.before = Snap],
                               "neterror", Snap))
    /\ UNCHANGED <<rawDir, rawSum, iconsSum, iconsOf, run,
                   nameVars, titleVars, renameVars, mergeVars, syncVars>>

\* main, lines 104-108: "No changes detected; skipping extraction"
DlSkip ==
    /\ run.kind = "download"
    /\ run.pc = "skip"
    /\ history' = Append(history, Ended(run, "skipped", Snap))
    /\ run' = NoRun
    /\ UNCHANGED <<rawDir, rawSum, iconsSum, iconsOf,
                   nameVars, titleVars, renameVars, mergeVars, syncVars>>

\* extractZip, lines 70-72: the raw directory is removed, its marker with it
DlClear ==
    /\ run.kind = "download"
    /\ run.pc = "extract"
    /\ rawDir' = NoArchive
    /\ rawSum' = <<>>
    /\ run' = [run EXCEPT !.pc = "unzip"]
    /\ UNCHANGED <<iconsSum, iconsOf, history,
                   nameVars, titleVars, renameVars, mergeVars, syncVars>>

\* extractZip, lines 74-77: extractAllTo throws on a damaged archive, and an
\* archive without entries is rejected
DlUnzip ==
    /\ run.kind = "download"
    /\ run.pc = "unzip"
    /\ \E ok \in BOOLEAN :
         IF ok
         THEN /\ run' = [run EXCEPT !.pc = "install"]
              /\ UNCHANGED history
         ELSE /\ run' = NoRun
              /\ history' = Append(history, Ended(run, "failed", Snap))
    /\ UNCHANGED <<rawDir, rawSum, iconsSum, iconsOf,
                   nameVars, titleVars, renameVars, mergeVars, syncVars>>

\* extractZip, lines 79-91: the entries are moved into raw-aws-icons and
\* writeChecksum writes the digest to both locations
DlInstall ==
    /\ run.kind = "download"
    /\ run.pc = "install"
    /\ rawDir' = run.zip
    /\ rawSum' = Marker(run.latest)
    /\ iconsSum' = Marker(run.latest)
    /\ history' = Append(history,
                         Ended(run, "extracted",
                               [rawDir |-> run.zip, rawSum |-> Marker(run.latest),
                                iconsSum |-> Marker(run.latest)]))
    /\ run' = NoRun
    /\ UNCHANGED <<iconsOf, nameVars, titleVars, renameVars, mergeVars, syncVars>>

\* restructure.js with the default destination: parseCli exits when the
\* source directory does not exist
RsStart ==
    /\ run.kind = "idle"
    /\ Len(history) < MaxRuns
    /\ \E dry \in BOOLEAN, user \in BOOLEAN :
         LET r == [NoRun EXCEPT !.kind = "restructure", !.pc = "merge",
                                !.dry = dry, !.user = user, !.before = Snap]
         IN  IF rawDir = NoArchive
             THEN /\ history' = Append(history, Ended(r, "failed", Snap))
                  /\ UNCHANGED run
             ELSE /\ run' = r
                  /\ UNCHANGED history
    /\ UNCHANGED <<rawDir, rawSum, iconsSum, iconsOf,
                   nameVars, titleVars, renameVars, mergeVars, syncVars>>

\* restructure.js, lines 106-237: the icons of the raw directory are copied
\* into aws-icons, unless a missing root or a failed copy ends the run, with
\* some of them copied or none
RsMerge ==
    /\ run.kind = "restructure"
    /\ run.pc = "merge"
    /\ \E crashed \in BOOLEAN, copied \in BOOLEAN :
         /\ (~crashed) => copied
         /\ iconsOf' = IF copied /\ ~run.dry THEN iconsOf \cup {rawDir} ELSE iconsOf
         /\ IF crashed
            THEN /\ run' = NoRun
                 /\ history' = Append(history, Ended(run, "failed", Snap))
            ELSE /\ run' = [run EXCEPT !.pc = "finish"]
                 /\ UNCHANGED history
    /\ UNCHANGED <<rawDir, rawSum, iconsSum,
                   nameVars, titleVars, renameVars, mergeVars, syncVars>>

\* restructure.js, lines 239-269: checksum.txt is copied to the destination
\* when the source has one, and the default raw directory is removed
RsFinish ==
    /\ run.kind = "restructure"
    /\ run.pc = "finish"
    /\ LET copiedSum == IF ~run.dry /\ rawSum # <<>> THEN rawSum ELSE iconsSum
           tidy == ~run.dry /\ ~run.user
       IN  /\ iconsSum' = copiedSum
           /\ rawDir' = IF tidy THEN NoArchive ELSE rawDir
           /\ rawSum' = IF tidy THEN <<>> ELSE rawSum
           /\ history' = Append(history,
                            Ended(run, "done",
                                  [rawDir |-> IF tidy THEN NoArchive ELSE rawDir,
                                   rawSum |-> IF tidy THEN <<>> ELSE rawSum,
                                   iconsSum |-> copiedSum]))
    /\ run' = NoRun
    /\ UNCHANGED <<iconsOf, nameVars, titleVars, renameVars, mergeVars, syncVars>>

NextPipe ==
    \/ DlFetch
    \/ DlFetchFails
    \/ DlSkip
    \/ DlClear
    \/ DlUnzip
    \/ DlInstall
    \/ RsStart
    \/ RsMerge
    \/ RsFinish

SpecPipe == InitPipe /\ [][NextPipe]_vars

-----------------------------------------------------------------------------
(* Properties of cleanName and cleanTitle                                  *)

HasBrand(s) == ContainsCI(s, sAmazon) \/ ContainsCI(s, sAws)

\* the base and the extension cleanName works on
ExtOf(n, f)  == IF f THEN extname(n) ELSE <<>>
BaseOf(n, f) == IF f THEN basename(n, extname(n)) ELSE n

\* C1: cleanName is idempotent: cleaning the cleaned name again, with the same
\* isFile, returns the cleaned name.
C1_Idempotent ==
    nstage = "twice" => recleaned = cleaned

\* C8: when the rules reduce the base to the empty string, cleanName returns
\* exactly the original name; and cleanName never returns the empty string.
C8_FallbackReturnsOriginal ==
    nstage \in {"once", "twice"} =>
        /\ cleanBase(BaseOf(name, isFile)) = <<>> => cleaned = name
        /\ cleaned # <<>>

\* C9 as stated: every name that contains a brand token is cleaned to a name
\* that contains none.
C9_NoBrandInOutput ==
    (nstage \in {"once", "twice"} /\ HasBrand(name)) => ~HasBrand(cleaned)

\* the name with its brand tokens taken out, leftmost match first
RECURSIVE C9_Removed(_, _)
C9_Removed(s, i) ==
    IF i > Len(s) THEN <<>>
    ELSE IF MatchCI(s, i, sAmazon) THEN C9_Removed(s, i + 6)
    ELSE IF MatchCI(s, i, sAws) THEN C9_Removed(s, i + 3)
    ELSE <<s[i]>> \o C9_Removed(s, i + 1)

\* the part of the cleaned name before the extension that was held aside
C9_CleanedBase ==
    SubSeq(cleaned, 1, Len(cleaned) - Len(ExtOf(name, isFile)))

C9_Covered ==
    /\ nstage \in {"once", "twice"}
    /\ HasBrand(BaseOf(name, isFile))
    /\ cleanBase(BaseOf(name, isFile)) # <<>>
    /\ ~HasBrand(C9_Removed(BaseOf(name, isFile), 1))

\* C9 as amended: a name whose base contains a brand token is cleaned to a
\* name whose base contains none, unless the rules reduce the base to the
\* empty string (the original name is kept) or the characters left around
\* the removed tokens themselves spell a brand token (AawsWS gives AWS).
C9_NoBrandInCleanedBase ==
    C9_Covered => ~HasBrand(C9_CleanedBase)

C9_Witness ==
    /\ C9_Covered
    /\ isFile
    /\ ExtOf(name, isFile) # <<>>
    /\ cleaned # name

\* C12 as stated: for every file name, the cleaned name has exactly the
\* extension of the name (path.extname of both, same characters, same case)
\* and differs from the name only before that extension.
C12_ExtensionPreserved ==
    (nstage \in {"once", "twice"} /\ isFile) =>
        /\ extname(cleaned) = extname(name)
        /\ Len(cleaned) >= Len(extname(name))
        /\ From(cleaned, Len(cleaned) - Len(extname(name)) + 1) = extname(name)

\* C12 as amended: the cleaned file name ends with the extension of the name,
\* character for character, and that is its extension too, unless the cleaned
\* name is ".." (a name such as "aws..", whose extension is a bare dot and
\* whose base is cleaned to a dot).
C12_ExtensionReattached ==
    (nstage \in {"once", "twice"} /\ isFile) =>
        /\ Len(cleaned) > Len(extname(name))
        /\ From(cleaned, Len(cleaned) - Len(extname(name)) + 1) = extname(name)
        /\ cleaned # <<".", ".">> => extname(cleaned) = extname(name)

C12_Witness ==
    /\ nstage = "once"
    /\ isFile
    /\ extname(name) = <<".", "S", "V", "G">>
    /\ cleaned # name
    /\ extname(cleaned) = <<".", "S", "V", "G">>
    /\ BaseOf(cleaned, TRUE) # BaseOf(name, TRUE)

RECURSIVE C10_Core(_)
C10_Core(s) ==
    IF s = <<>> THEN <<>>
    ELSE (IF IsSep(Head(s)) THEN <<>> ELSE <<Head(s)>>) \o C10_Core(Tail(s))

-----------------------------------------------------------------------------
(* Properties of the title pass                                            *)

\* C11: after one live pass of svg-title.js over a file, a further pass
\* writes nothing; and a file without a title element is never written.
C11_FixpointInOneRun ==
    /\ (~syDryRun /\ svg0 # <<>>) =>
          \A k \in 2..Len(sywrites) : ~sywrites[k]
    /\ (svg0 # <<>> /\ ~svg0.has) =>
          /\ svg = svg0
          /\ \A k \in 1..Len(sywrites) : ~sywrites[k]

-----------------------------------------------------------------------------
(* Properties of the renamer                                               *)

\* every entry the run started from is still there, in the same directory and
\* of the same kind, and no two entries of a directory share a name
C2_EntriesKept ==
    /\ Cardinality(tree) = Cardinality(tree0)
    /\ \A n0 \in tree0 :
          \E n \in tree : /\ n.id = n0.id
                          /\ n.parent = n0.parent
                          /\ n.isDir = n0.isDir
    /\ \A n, m \in tree : (n.parent = m.parent /\ n.name = m.name) => n = m

\* a rename onto an existing name is skipped and the entry keeps its name; a
\* rename that was done found its destination free
C2_CollisionSkipped ==
    \A k \in DOMAIN renames :
       LET c == renames[k] IN
       /\ (~rnDryRun /\ c.old # c.new /\ c.existed) => c.outcome = "skip"
       /\ (~rnDryRun /\ c.old # c.new /\ ~c.existed) => c.outcome = "renamed"
       /\ c.outcome \in {"skip", "same", "dry"} => NodeOf(tree, c.node).name = c.old
       /\ c.outcome = "renamed" => NodeOf(tree, c.node).name = c.new

\* of two siblings cleaned to the same name, the one renamed first has the
\* name and the later one is skipped
C2_FirstWins ==
    \A i, j \in DOMAIN renames :
       (/\ i < j
        /\ renames[i].dir = renames[j].dir
        /\ renames[i].new = renames[j].new
        /\ renames[i].outcome = "renamed")
       => renames[j].outcome = "skip"

\* the run ends normally having called renameSafe once for every entry
C2_AllProcessed ==
    /\ rnpc # "failed"
    /\ rnpc = "done" =>
          /\ Len(renames) = Cardinality(tree0)
          /\ \A n0 \in tree0 : \E k \in DOMAIN renames : renames[k].node = n0.id

\* C2: the renamer never overwrites or loses an entry: a rename whose
\* destination exists is skipped and the entry keeps its name, the tree keeps
\* all its files and directories, the first of two siblings cleaned to the same
\* name gets it and the later is skipped, and later siblings are still
\* processed.
C2_NoOverwriteNoLoss ==
    /\ C2_EntriesKept
    /\ C2_CollisionSkipped
    /\ C2_FirstWins
    /\ C2_AllProcessed

C2_Witness ==
    /\ rnpc = "done"
    /\ ~rnDryRun
    /\ \E i, j, k \in DOMAIN renames :
          /\ i < j /\ j < k
          /\ renames[i].dir = renames[j].dir
          /\ renames[j].dir = renames[k].dir
          /\ renames[i].new = renames[j].new
          /\ renames[i].outcome = "renamed"
          /\ renames[j].outcome = "skip"
          /\ renames[j].old # renames[j].new

-----------------------------------------------------------------------------
(* Properties of the restructure run                                       *)

RECURSIVE Count(_, _)
Count(q, x) ==
    IF q = <<>> THEN 0 ELSE (IF Head(q) = x THEN 1 ELSE 0) + Count(Tail(q), x)

MergeOver == rpc \in {"cats", "checksum", "done"}

\* C3: a copy whose destination exists is never fatal, in any copy path: the
\* run does not end on it, and the file that was there is still there.
C3_CollisionNotFatal ==
    rpc # "off" =>
        /\ crash = "none"
        /\ \A x \in dest0.files : x \in dest.files

\* an architecture category with no identical slug, no inferred alias and no
\* manual alias that leads to a resource category
C4_NoCounterpart(t) ==
    /\ ~IsGeneral(t)
    /\ ~MapHas(resCats, t.slug)
    /\ ~MapHas(autoAlias, t.slug)
    /\ ~(MapHas(manualAlias, t.slug) /\ MapHas(resCats, MapGet(manualAlias, t.slug)))

\* C4: every architecture category without a resource counterpart is listed
\* exactly once as unmatched and counted as architecture-only, and its
\* destination directory holds its own files of the chosen size and format.
C4_UnmatchedRecordedOnce ==
    MergeOver =>
        \A t \in DOMAIN tasks :
            C4_NoCounterpart(tasks[t]) =>
                /\ Count(sum.unmatched, tasks[t].dir) = 1
                /\ sum.archOnly >= 1
                /\ DestCat(tasks[t].dir) \in dest.dirs
                /\ ~cfg.dryRun =>
                      \A i \in DOMAIN ArchJobs(tasks[t].dir) :
                          Exists(dest, DestCat(tasks[t].dir),
                                 ArchJobs(tasks[t].dir)[i].base)

C5_Resolved == rpc \in {"merge", "cats", "checksum", "done", "crashed"}

\* C5: the manual override table has precedence: a slug with an inferred alias
\* and a manual entry resolves to the manual target, which is the one mergeCat
\* looks up; inferred aliases exist only for architecture slugs that are not
\* resource slugs.
C5_ManualPrecedence ==
    C5_Resolved =>
        /\ \A k \in MapKeys(autoAlias) \cap MapKeys(manualAlias) :
              MapGet(alias, k) = MapGet(manualAlias, k)
        /\ \A k \in MapKeys(autoAlias) :
              /\ MapHas(archCats, k)
              /\ ~MapHas(resCats, k)
        /\ \A t \in DOMAIN tasks :
              MapHas(manualAlias, tasks[t].slug) =>
                  tasks[t].res = MapGet(resCats, MapGet(manualAlias, tasks[t].slug))

C5_Witness ==
    /\ rpc = "merge"
    /\ \E t \in DOMAIN tasks :
          LET k == tasks[t].slug IN
          /\ MapHas(autoAlias, k)
          /\ MapHas(manualAlias, k)
          /\ MapGet(autoAlias, k) # MapGet(manualAlias, k)
          /\ MapHas(resCats, MapGet(manualAlias, k))
          /\ tasks[t].res = MapGet(resCats, MapGet(manualAlias, k))
          /\ tasks[t].pc = "end"

\* C6: with the dry-run flag set no stage changes the file system: the
\* restructure run leaves the destination and the raw archive as they were,
\* and the renamer leaves its tree as it was.
C6_DryRunNoMutation ==
    /\ (rpc # "off" /\ cfg.dryRun) => (dest = dest0 /\ source.present)
    /\ (rnpc # "off" /\ rnDryRun) => tree = tree0

\* C7: when a required source root is missing the run aborts before any write:
\* the destination is as it was, its root not created, nothing copied.
C7_MissingRootAborts ==
    /\ (rpc \notin {"off", "start"} /\ source.roots # AllRoots) =>
          (rpc = "aborted" /\ dest = dest0)
    /\ rpc = "aborted" => (source.roots # AllRoots /\ dest = dest0)

C7_Witness ==
    /\ rpc = "aborted"
    /\ source.roots # AllRoots
    /\ dest = EmptyDest

\* the job that comes first in the category's job list among those with the
\* destination of job j
FirstFor(jobs, j) ==
    jobs[CHOOSE i \in DOMAIN jobs :
            /\ jobs[i].dir = j.dir /\ jobs[i].base = j.base
            /\ \A k \in DOMAIN jobs :
                  (jobs[k].dir = j.dir /\ jobs[k].base = j.base) => i <= k]

\* the files a category merge leaves when its copies settle in job order
InJobOrder(jobs) ==
    { [dir |-> jobs[i].dir, base |-> jobs[i].base,
       from |-> FirstFor(jobs, jobs[i]).src] : i \in DOMAIN jobs }

\* C13: over a clean destination the merge ends with the same files whatever
\* the interleaving: every category directory holds what its copies leave
\* when they settle in job order, and copied and skipped are the numbers of
\* distinct and of repeated destinations.
C13_MergeDeterministic ==
    (MergeOver /\ ~cfg.dryRun /\ dest0 = EmptyDest) =>
        /\ \A t \in DOMAIN tasks :
              ~IsGeneral(tasks[t]) =>
                 { x \in dest.files : x.dir = DestCat(tasks[t].dir) }
                    = InJobOrder(tasks[t].jobs)
        /\ LET all == UNION { InJobOrder(tasks[t].jobs) : t \in DOMAIN tasks }
               n == Cardinality(UNION { { <<t, i>> : i \in DOMAIN tasks[t].jobs }
                                          : t \in DOMAIN tasks })
           IN  /\ sum.copied = Cardinality(all)
               /\ sum.skipped = n - Cardinality(all)

\* the jobs the workers of a category hold: taken, their copy not yet settled
Held(task) == { task.workers[w] : w \in DOMAIN task.workers } \ {0}

RECURSIVE Settled(_)
Settled(ts) ==
    IF ts = <<>> THEN 0
    ELSE Len(Head(ts).taken) - Cardinality(Held(Head(ts))) + Settled(Tail(ts))

\* C15: within a category merge no job is taken twice, no two workers hold
\* the same job, every taken job is counted once as copied or skipped when its
\* copy settles, and when the merge completes every job has been taken: so
\* copied + skipped has grown by exactly the number of candidate jobs.
C15_EachJobOnce ==
    rpc # "off" =>
        /\ \A t \in DOMAIN tasks :
              LET task == tasks[t] IN
              /\ \A j \in DOMAIN task.jobs : Count(task.taken, j) <= 1
              /\ \A k \in DOMAIN task.taken : task.taken[k] \in DOMAIN task.jobs
              /\ \A w1, w2 \in DOMAIN task.workers :
                    (w1 # w2 /\ task.workers[w1] # 0) =>
                        task.workers[w1] # task.workers[w2]
              /\ \A j \in Held(task) : Count(task.taken, j) = 1
              /\ (task.pc = "end" /\ ~IsGeneral(task)) =>
                    /\ Held(task) = {}
                    /\ \A j \in DOMAIN task.jobs : Count(task.taken, j) = 1
        /\ sum.copied + sum.skipped = Settled(tasks)

C15_Witness ==
    /\ rpc = "merge"
    /\ cfg.concurrency >= 2
    /\ ~cfg.dryRun
    /\ \E t \in DOMAIN tasks :
          /\ tasks[t].pc = "end"
          /\ Len(tasks[t].jobs) >= 3
          /\ Len(tasks[t].taken) = Len(tasks[t].jobs)
    /\ sum.skipped >= 1
    /\ sum.copied >= 2

\* C16: when the merge is over every architecture category has been counted
\* once, as merged or as architecture-only; a category with a resource
\* counterpart is not in the unmatched list; no category is in it twice.
C16_StatsPartition ==
    MergeOver =>
        /\ sum.merged + sum.archOnly = Len(tasks)
        /\ \A t \in DOMAIN tasks :
              /\ Count(sum.unmatched, tasks[t].dir) <= 1
              /\ (~IsGeneral(tasks[t]) /\ tasks[t].res # NoDir) =>
                    Count(sum.unmatched, tasks[t].dir) = 0

-----------------------------------------------------------------------------
(* The order of the renamer's calls                                        *)

\* C17: a directory's rename is attempted only after the rename of every
\* entry beneath it has been attempted, and every rename is issued on a path
\* that exists at that moment (no call fails, none finds its source missing).
C17_ChildrenBeforeParents ==
    rnpc # "off" =>
        /\ rnpc # "failed"
        /\ \A k \in DOMAIN renames :
              /\ renames[k].node # NoNode
              /\ renames[k].dir # NoNode
              /\ \A d \in Descendants(tree0, renames[k].node) :
                    \E j \in 1..(k - 1) : renames[j].node = d

C17_Witness ==
    /\ rnpc = "done"
    /\ ~rnDryRun
    /\ \E k \in DOMAIN renames :
          /\ renames[k].outcome = "renamed"
          /\ IsDirNode(tree0, renames[k].node)
          /\ \E j \in 1..(k - 1) :
                /\ renames[j].outcome = "renamed"
                /\ NodeOf(tree0, renames[j].node).parent = renames[k].node

-----------------------------------------------------------------------------
(* Properties of the checksum markers                                      *)

IsDownload(r) == r.kind = "download" /\ r.outcome # "neterror"

C18_MarkerMatchesIcons ==
    iconsSum # <<>> =>
        \E a \in iconsOf : WsTrim(iconsSum) = sha256(a)

=============================================================================
